---- MODULE Spec2Model ----
(***************************************************************************)
(* Model of Command::from_str (src/src/lib.rs): the single-pass scan that   *)
(* splits one line of command text into a command name and its arguments,   *)
(* and of the syntax blocks over ParserData (src/src/syntax_blocks.rs,      *)
(* src/src/characters.rs).                                                  *)
(*                                                                          *)
(* A string is a sequence of characters; a character is one of the names    *)
(* below.  "sp", "tab", "nl" (newline) and "cr" (carriage return) are       *)
(* whitespace characters, "dq" is the double quote, "sq" the single quote,  *)
(* "bs" the backslash, and "n", "r" and "t" are ordinary letters.  "e2" is   *)
(* an ordinary letter that takes two bytes in UTF-8.                        *)
(***************************************************************************)
EXTENDS Integers, Sequences, FiniteSets, TLC

\* Longest input string the model scans.
MaxLen == 5
\* Longest input string of a ParserData.
MaxInput == 3
\* Most tokens a direct new_token call may bring the output to.
MaxTokens == 1

Backslash == "bs"
DQuote == "dq"
SQuote == "sq"
Newline == "nl"
CarriageReturn == "cr"
Tab == "tab"

Plain == {"n", "r", "t"}
\* The characters char::is_whitespace accepts.
WhitespaceChars == {"sp", Tab, Newline, CarriageReturn}
\* The characters of the input strings.
Chars == Plain \cup {"sp", Tab} \cup {DQuote, SQuote, Backslash}

\* char::is_whitespace, as used at lib.rs:75
IsWhitespace(c) == c \in WhitespaceChars

\* Every input string of at most MaxLen characters.
Inputs == UNION {[1..n -> Chars] : n \in 0..MaxLen}

VARIABLES s, i, tokens, prev_whitespace, in_quotes, in_backslash, pc, result

\* The fields of one ParserData (input, output, byte_offset), where the
\* caller of its operations stands (bpc), and the last call made on it: the
\* operation and its block list (call) and what it returned (ret).
VARIABLES input, output, byte_offset, bpc, call, ret

fvars == <<s, i, tokens, prev_whitespace, in_quotes, in_backslash, pc, result>>
bvars == <<input, output, byte_offset, bpc, call, ret>>
vars == <<fvars, bvars>>

----------------------------------------------------------------------------
(* The locals of from_str as one record, and the loop body as operators.   *)

\* Mutant: the first empty token is not pushed before the loop.
InitLocals_NoFirstToken ==
    [tokens |-> <<>>, prev_whitespace |-> TRUE,
     in_quotes |-> FALSE, in_backslash |-> FALSE, panicked |-> FALSE]

\* Mutant: prev_whitespace starts false.
InitLocals_PrevWhitespaceFalse ==
    [tokens |-> << <<>> >>, prev_whitespace |-> FALSE,
     in_quotes |-> FALSE, in_backslash |-> FALSE, panicked |-> FALSE]

\* lib.rs:40-49: the locals before the loop; tokens holds one empty token.
InitLocals ==
    [tokens |-> << <<>> >>, prev_whitespace |-> TRUE,
     in_quotes |-> FALSE, in_backslash |-> FALSE, panicked |-> FALSE]

\* tokens.last_mut().unwrap().push(c): panics on an empty token list.
PushLast(st, c) ==
    IF Len(st.tokens) = 0
    THEN [st EXCEPT !.panicked = TRUE]
    ELSE [st EXCEPT !.tokens[Len(st.tokens)] = Append(@, c)]

\* The escape translation of the specification: n, r, t name control characters.
Translate(c) ==
    CASE c = "n" -> Newline
      [] c = "r" -> CarriageReturn
      [] c = "t" -> Tab
      [] OTHER -> c

\* Mutant: the escaped character is translated before it is appended.
EscapedChar_Translating(st, c) ==
    PushLast([st EXCEPT !.prev_whitespace = FALSE, !.in_backslash = FALSE],
             Translate(c))

\* lib.rs:55-58: the previous character was a backslash.
EscapedChar(st, c) ==
    PushLast([st EXCEPT !.prev_whitespace = FALSE, !.in_backslash = FALSE], c)

\* Mutant: the backslash itself is appended to the current token.
BackslashChar_Kept(st, c) ==
    PushLast([st EXCEPT !.in_backslash = TRUE], c)

\* lib.rs:61-62: the current character is a backslash.
BackslashChar(st, c) ==
    [st EXCEPT !.in_backslash = TRUE]

\* lib.rs:65-71: inside quotes; copy verbatim except for the end quote.
QuotedChar(st, c) ==
    IF c = DQuote
    THEN [st EXCEPT !.prev_whitespace = FALSE, !.in_quotes = FALSE]
    ELSE PushLast([st EXCEPT !.prev_whitespace = FALSE], c)

\* Mutant: every whitespace character starts a new token.
WhitespaceChar_NoCollapse(st, c) ==
    [st EXCEPT !.tokens = Append(@, <<>>), !.prev_whitespace = TRUE]

\* lib.rs:75-79: whitespace starts a new empty token once per run.
WhitespaceChar(st, c) ==
    IF ~st.prev_whitespace
    THEN [st EXCEPT !.tokens = Append(@, <<>>), !.prev_whitespace = TRUE]
    ELSE [st EXCEPT !.prev_whitespace = TRUE]

\* Mutant: a single quote opens a quoted region too.
OtherChar_SQuoteOpens(st, c) ==
    IF c \in {DQuote, SQuote}
    THEN [st EXCEPT !.prev_whitespace = FALSE, !.in_quotes = TRUE]
    ELSE PushLast([st EXCEPT !.prev_whitespace = FALSE], c)

\* Mutant: an opening quote starts a new token.
OtherChar_QuoteStartsToken(st, c) ==
    IF c = DQuote
    THEN [st EXCEPT !.tokens = Append(@, <<>>),
                    !.prev_whitespace = FALSE, !.in_quotes = TRUE]
    ELSE PushLast([st EXCEPT !.prev_whitespace = FALSE], c)

\* lib.rs:82-93: an opening quote, or an ordinary character.
OtherChar(st, c) ==
    IF c = DQuote
    THEN [st EXCEPT !.prev_whitespace = FALSE, !.in_quotes = TRUE]
    ELSE PushLast([st EXCEPT !.prev_whitespace = FALSE], c)

\* Mutant: the quoted arm is tried before the backslash arm.
Branch_QuotedFirst(st, c) ==
    IF st.in_backslash THEN "escaped"
    ELSE IF st.in_quotes THEN "quoted"
    ELSE IF c = Backslash THEN "backslash"
    ELSE IF IsWhitespace(c) THEN "whitespace"
    ELSE "other"

\* lib.rs:55-93: which arm of the if / else-if chain handles c.
Branch(st, c) ==
    IF st.in_backslash THEN "escaped"
    ELSE IF c = Backslash THEN "backslash"
    ELSE IF st.in_quotes THEN "quoted"
    ELSE IF IsWhitespace(c) THEN "whitespace"
    ELSE "other"

\* lib.rs:52-94: one iteration of the loop on character c.
Step(st, c) ==
    CASE Branch(st, c) = "escaped" -> EscapedChar(st, c)
      [] Branch(st, c) = "backslash" -> BackslashChar(st, c)
      [] Branch(st, c) = "quoted" -> QuotedChar(st, c)
      [] Branch(st, c) = "whitespace" -> WhitespaceChar(st, c)
      [] OTHER -> OtherChar(st, c)

\* Mutant: the last token is dropped whether or not it is empty.
PopEmpty_Always(toks) == SubSeq(toks, 1, Len(toks) - 1)

\* lib.rs:96-99: drop an empty last token.
PopEmpty(toks) ==
    IF toks[Len(toks)] = <<>> THEN SubSeq(toks, 1, Len(toks) - 1) ELSE toks

NoResult == [kind |-> "none", name |-> <<>>, arguments |-> <<>>]
EmptyCommandError == [kind |-> "EmptyCommandError", name |-> <<>>, arguments |-> <<>>]
Panic == [kind |-> "panic", name |-> <<>>, arguments |-> <<>>]

\* Mutant: the name is not left out of the arguments.
BuildCommand_NameInArguments(toks) ==
    IF Len(toks) = 0
    THEN EmptyCommandError
    ELSE [kind |-> "Ok", name |-> toks[1], arguments |-> toks]

\* lib.rs:101-107: the first token is the name, the others the arguments.
BuildCommand(toks) ==
    IF Len(toks) = 0
    THEN EmptyCommandError
    ELSE [kind |-> "Ok", name |-> toks[1], arguments |-> SubSeq(toks, 2, Len(toks))]

UnterminatedQuote == [kind |-> "UnterminatedQuote", name |-> <<>>, arguments |-> <<>>]
UnterminatedEscape == [kind |-> "UnterminatedEscape", name |-> <<>>, arguments |-> <<>>]

\* Mutant: an input that ends inside quotes is rejected.
Finalize_RejectOpenQuote(st) ==
    IF st.panicked \/ Len(st.tokens) = 0 THEN Panic
    ELSE IF st.in_quotes THEN UnterminatedQuote
    ELSE BuildCommand(PopEmpty(st.tokens))

\* Mutant: an input that ends right after a backslash is rejected.
Finalize_RejectPendingEscape(st) ==
    IF st.panicked \/ Len(st.tokens) = 0 THEN Panic
    ELSE IF st.in_backslash THEN UnterminatedEscape
    ELSE BuildCommand(PopEmpty(st.tokens))

\* lib.rs:96-107: what from_str returns from the locals after the loop.
Finalize(st) ==
    IF st.panicked \/ Len(st.tokens) = 0
    THEN Panic
    ELSE BuildCommand(PopEmpty(st.tokens))

\* lib.rs:52: the locals after the first k characters of str.
RECURSIVE ScanTo(_, _)
ScanTo(str, k) ==
    IF k = 0 THEN InitLocals ELSE Step(ScanTo(str, k - 1), str[k])

\* lib.rs:37-108: from_str as a function of its argument.
FromStr(str) == Finalize(ScanTo(str, Len(str)))

----------------------------------------------------------------------------
(* ParserData (characters.rs) as a record pd, and the syntax blocks         *)
(* (syntax_blocks.rs) as operators on it.  A panic sets pd.panicked and     *)
(* ends the call.                                                           *)

\* The characters of a ParserData input.
BlockChars == {"e2", "sp", DQuote, Backslash}

\* Every ParserData input of at most MaxInput characters.
BlockInputs == UNION {[1..n -> BlockChars] : n \in 0..MaxInput}

\* char::len_utf8 (characters.rs:26)
LenUtf8(c) == IF c = "e2" THEN 2 ELSE 1

\* String::len (characters.rs:44): the length of str in bytes.
RECURSIVE ByteLen(_)
ByteLen(str) ==
    IF str = <<>> THEN 0 ELSE LenUtf8(Head(str)) + ByteLen(Tail(str))

\* Err(OutOfInputError) (characters.rs:9-13)
OutOfInput == "OutOfInputError"

\* characters.rs:16-22: ParserData::new
NewParserData(str) ==
    [input |-> str, output |-> <<>>, byte_offset |-> 0, panicked |-> FALSE]

\* characters.rs:36-41: the character that starts at byte_offset, if any.
Peek(pd) ==
    LET at == {k \in 1..Len(pd.input) :
                  ByteLen(SubSeq(pd.input, 1, k - 1)) = pd.byte_offset}
    IN IF at = {} THEN OutOfInput ELSE pd.input[CHOOSE k \in at : TRUE]

\* characters.rs:24-28: the ParserData after eat; Peek(pd) is what it returns.
Eat(pd) ==
    IF Peek(pd) = OutOfInput THEN pd
    ELSE [pd EXCEPT !.byte_offset = @ + LenUtf8(Peek(pd))]

\* characters.rs:51-53: push panics when the output holds no token.
Push(pd, c) ==
    IF Len(pd.output) = 0
    THEN [pd EXCEPT !.panicked = TRUE]
    ELSE [pd EXCEPT !.output[Len(pd.output)] = Append(@, c)]

\* characters.rs:30-34: the ParserData after eat_and_push; it returns Err
\* exactly when Peek(pd) is OutOfInput.
EatAndPush(pd) ==
    IF Peek(pd) = OutOfInput THEN pd ELSE Push(Eat(pd), Peek(pd))

\* characters.rs:43-45
NotEmpty(pd) == pd.byte_offset < ByteLen(pd.input)

\* characters.rs:47-49
NewToken(pd) == [pd EXCEPT !.output = Append(@, <<>>)]

\* What a call gives back: the ParserData it leaves and the value returned.
Returned(pd, value) == [pd |-> pd, ret |-> value]
\* Option::unwrap / Result::unwrap on None / Err.
Panicked(pd) == [pd |-> [pd EXCEPT !.panicked = TRUE], ret |-> "panic"]

\* Mutant: the character after the backslash is required (unwrap).
EscapeConsume_Unwrap(pd) ==
    IF Peek(pd) = OutOfInput THEN Panicked(pd)
    ELSE IF Peek(pd) = Backslash
    THEN IF Peek(Eat(pd)) = OutOfInput THEN Panicked(Eat(pd))
         ELSE LET after == EatAndPush(Eat(pd))
              IN IF after.panicked THEN Panicked(after) ELSE Returned(after, TRUE)
    ELSE Returned(pd, FALSE)

\* syntax_blocks.rs:42-52: EscapeBlock::consume
EscapeConsume(pd) ==
    IF Peek(pd) = OutOfInput THEN Panicked(pd)
    ELSE IF Peek(pd) = Backslash
    THEN LET after == EatAndPush(Eat(pd))
         IN IF after.panicked THEN Panicked(after) ELSE Returned(after, TRUE)
    ELSE Returned(pd, FALSE)

\* syntax_blocks.rs:62-64: eat while the next character is whitespace.
RECURSIVE SkipWhitespace(_)
SkipWhitespace(pd) ==
    IF NotEmpty(pd) /\ IsWhitespace(Peek(pd)) THEN SkipWhitespace(Eat(pd)) ELSE pd

\* Mutant: the new token is created before the whitespace test.
WhitespaceConsume_TokenFirst(pd) ==
    IF Peek(pd) = OutOfInput THEN Panicked(pd)
    ELSE IF ~IsWhitespace(Peek(pd)) THEN Returned(NewToken(pd), FALSE)
    ELSE Returned(SkipWhitespace(NewToken(pd)), TRUE)

\* Mutant: one whitespace character is eaten, not the run.
WhitespaceConsume_OneChar(pd) ==
    IF Peek(pd) = OutOfInput THEN Panicked(pd)
    ELSE IF ~IsWhitespace(Peek(pd)) THEN Returned(pd, FALSE)
    ELSE Returned(Eat(NewToken(pd)), TRUE)

\* syntax_blocks.rs:57-68: WhitespaceBlock::consume
WhitespaceConsume(pd) ==
    IF Peek(pd) = OutOfInput THEN Panicked(pd)
    ELSE IF ~IsWhitespace(Peek(pd)) THEN Returned(pd, FALSE)
    ELSE Returned(SkipWhitespace(NewToken(pd)), TRUE)

\* syntax_blocks.rs:79: the condition of the loop of QuoteBlock::consume.
QuoteLoopCond(pd) == NotEmpty(pd) /\ Peek(pd) # DQuote

\* syntax_blocks.rs:80: the blocks valid inside a QuoteBlock.
QuoteInner == <<"EscapeBlock">>

\* Mutant: the closing quote is not eaten.
QuoteFinish_NoEat(pd) == pd

\* syntax_blocks.rs:83: input.eat().unwrap_or_default()
QuoteFinish(pd) == Eat(pd)

\* syntax_blocks.rs:32-34: handle_or_push after its handle_blocks call ended
\* as r: if no block matched, eat the next character and push it.  It
\* returns nothing.
OrPush(r) ==
    IF r.pd.panicked THEN Panicked(r.pd)
    ELSE IF r.ret THEN Returned(r.pd, "unit")
    ELSE IF Peek(r.pd) = OutOfInput THEN Panicked(r.pd)
    ELSE LET after == EatAndPush(r.pd)
         IN IF after.panicked THEN Panicked(after) ELSE Returned(after, "unit")

\* syntax_blocks.rs:8: SyntaxBlock::consume of the blocks that nest no block.
ConsumeFlat(t, pd) ==
    CASE t = "EscapeBlock" -> EscapeConsume(pd)
      [] t = "WhitespaceBlock" -> WhitespaceConsume(pd)

\* syntax_blocks.rs:16-24: handle_blocks as QuoteBlock::consume calls it, on
\* blocks that nest no block; after[k] is the outcome after k blocks.
HandleBlocksFlat(pd, types) ==
    LET after[k \in 0..Len(types)] ==
            IF k = 0 THEN Returned(pd, FALSE)
            ELSE LET prev == after[k - 1]
                 IN IF prev.pd.panicked \/ prev.ret = TRUE
                    THEN prev
                    ELSE ConsumeFlat(types[k], prev.pd)
    IN IF NotEmpty(pd) THEN after[Len(types)] ELSE Returned(pd, FALSE)

\* syntax_blocks.rs:31-35: handle_or_push as QuoteBlock::consume calls it.
HandleOrPushFlat(pd, types) == OrPush(HandleBlocksFlat(pd, types))

\* syntax_blocks.rs:79-81: the loop of QuoteBlock::consume, run to its end.
RECURSIVE QuoteLoop(_)
QuoteLoop(pd) ==
    IF QuoteLoopCond(pd)
    THEN LET r == HandleOrPushFlat(pd, QuoteInner)
         IN IF r.pd.panicked THEN r.pd ELSE QuoteLoop(r.pd)
    ELSE pd

\* syntax_blocks.rs:75-89: QuoteBlock::consume
QuoteConsume(pd) ==
    IF Peek(pd) = OutOfInput THEN Panicked(pd)
    ELSE IF Peek(pd) = DQuote
    THEN LET after == QuoteLoop(Eat(pd))
         IN IF after.panicked THEN Panicked(after)
            ELSE Returned(QuoteFinish(after), TRUE)
    ELSE Returned(pd, FALSE)

\* The SyntaxBlock implementations (syntax_blocks.rs:40, 55, 72).
Blocks == {"EscapeBlock", "WhitespaceBlock", "QuoteBlock"}

\* syntax_blocks.rs:8: SyntaxBlock::consume, dispatched on the block.
Consume(t, pd) ==
    CASE t = "QuoteBlock" -> QuoteConsume(pd)
      [] OTHER -> ConsumeFlat(t, pd)

\* syntax_blocks.rs:16-24: handle_blocks: try the blocks in order and stop
\* at the first match; after[k] is the outcome after k blocks.
HandleBlocks(pd, types) ==
    LET after[k \in 0..Len(types)] ==
            IF k = 0 THEN Returned(pd, FALSE)
            ELSE LET prev == after[k - 1]
                 IN IF prev.pd.panicked \/ prev.ret = TRUE
                    THEN prev
                    ELSE Consume(types[k], prev.pd)
    IN IF NotEmpty(pd) THEN after[Len(types)] ELSE Returned(pd, FALSE)

\* syntax_blocks.rs:31-35: handle_or_push
HandleOrPush(pd, types) == OrPush(HandleBlocks(pd, types))

\* The lists of blocks a caller may pass: distinct blocks in any order.
BlockLists ==
    {l \in UNION {[1..n -> Blocks] : n \in 0..3} :
        \A a \in 1..Len(l) : \A b \in 1..Len(l) : a # b => l[a] # l[b]}

----------------------------------------------------------------------------
(* The scan as a state machine: one step per character, then the return.   *)

Locals ==
    [tokens |-> tokens, prev_whitespace |-> prev_whitespace,
     in_quotes |-> in_quotes, in_backslash |-> in_backslash,
     panicked |-> (pc = "panic")]

\* The ParserData as the record the block operators take.
PD ==
    [input |-> input, output |-> output, byte_offset |-> byte_offset,
     panicked |-> (bpc = "panic")]

NoCall == [op |-> "none", types |-> <<>>]

\* No ParserData is in use while from_str runs: it does not use one.
BlocksOff ==
    /\ input = <<>>
    /\ output = <<>>
    /\ byte_offset = 0
    /\ bpc = "off"
    /\ call = NoCall
    /\ ret = "none"

Init ==
    /\ BlocksOff
    /\ s \in Inputs
    /\ i = 0
    /\ tokens = InitLocals.tokens
    /\ prev_whitespace = InitLocals.prev_whitespace
    /\ in_quotes = InitLocals.in_quotes
    /\ in_backslash = InitLocals.in_backslash
    /\ pc = "loop"
    /\ result = NoResult

\* lib.rs:52-94: the loop body on the next character of s.
LoopBody ==
    /\ pc = "loop"
    /\ i < Len(s)
    /\ LET st == Step(Locals, s[i + 1]) IN
         /\ tokens' = st.tokens
         /\ prev_whitespace' = st.prev_whitespace
         /\ in_quotes' = st.in_quotes
         /\ in_backslash' = st.in_backslash
         /\ pc' = IF st.panicked THEN "panic" ELSE "loop"
         /\ result' = IF st.panicked THEN Panic ELSE result
    /\ i' = i + 1
    /\ UNCHANGED s
    /\ UNCHANGED bvars

\* lib.rs:96-107: after the last character, pop an empty last token and return.
Return ==
    /\ pc = "loop"
    /\ i = Len(s)
    /\ result' = Finalize(Locals)
    /\ tokens' = IF Len(tokens) = 0 THEN tokens ELSE PopEmpty(tokens)
    /\ pc' = IF Len(tokens) = 0 THEN "panic" ELSE "done"
    /\ UNCHANGED <<s, i, prev_whitespace, in_quotes, in_backslash>>
    /\ UNCHANGED bvars

Next == LoopBody \/ Return

Spec == Init /\ [][Next]_vars

----------------------------------------------------------------------------
(* A ParserData and the calls a user of the blocks can make on it, one     *)
(* action per call; QuoteBlock::consume called directly runs its loop one  *)
(* iteration per step.                                                     *)

\* from_str is not running.
FromStrOff ==
    /\ s = <<>>
    /\ i = 0
    /\ tokens = InitLocals.tokens
    /\ prev_whitespace = InitLocals.prev_whitespace
    /\ in_quotes = InitLocals.in_quotes
    /\ in_backslash = InitLocals.in_backslash
    /\ pc = "off"
    /\ result = NoResult

\* characters.rs:16-22: a ParserData as ParserData::new leaves it.
BlockInit ==
    /\ FromStrOff
    /\ input \in BlockInputs
    /\ output = NewParserData(input).output
    /\ byte_offset = NewParserData(input).byte_offset
    /\ bpc = "idle"
    /\ call = NoCall
    /\ ret = "none"

\* The call op is made on PD and ends as r, returned or panicked; types is
\* the block list of a handle_blocks call.
Apply(op, types, r) ==
    /\ output' = r.pd.output
    /\ byte_offset' = r.pd.byte_offset
    /\ bpc' = IF r.pd.panicked THEN "panic" ELSE "idle"
    /\ call' = [op |-> op, types |-> types]
    /\ ret' = r.ret
    /\ UNCHANGED input
    /\ UNCHANGED fvars

\* characters.rs:47-49: new_token called by the user of the ParserData.
NewTokenCall ==
    /\ bpc = "idle"
    /\ Len(output) < MaxTokens
    /\ Apply("new_token", <<>>, Returned(NewToken(PD), "unit"))

\* syntax_blocks.rs:42-52: EscapeBlock::consume called directly.
EscapeCall ==
    /\ bpc = "idle"
    /\ Apply("EscapeBlock", <<>>, EscapeConsume(PD))

\* syntax_blocks.rs:57-68: WhitespaceBlock::consume called directly.
WhitespaceCall ==
    /\ bpc = "idle"
    /\ Apply("WhitespaceBlock", <<>>, WhitespaceConsume(PD))

\* syntax_blocks.rs:75-77, 86-88: QuoteBlock::consume called directly, up to
\* its loop: it panics, returns false, or eats the opening quote.
QuoteCall ==
    /\ bpc = "idle"
    /\ IF Peek(PD) = DQuote
       THEN /\ byte_offset' = Eat(PD).byte_offset
            /\ bpc' = "quote_loop"
            /\ call' = [op |-> "QuoteBlock", types |-> <<>>]
            /\ ret' = "none"
            /\ UNCHANGED <<input, output>>
            /\ UNCHANGED fvars
       ELSE Apply("QuoteBlock", <<>>, QuoteConsume(PD))

\* syntax_blocks.rs:79-81: one iteration of the loop of QuoteBlock::consume.
QuoteLoopStep ==
    /\ bpc = "quote_loop"
    /\ QuoteLoopCond(PD)
    /\ LET r == HandleOrPushFlat(PD, QuoteInner) IN
         /\ output' = r.pd.output
         /\ byte_offset' = r.pd.byte_offset
         /\ bpc' = IF r.pd.panicked THEN "panic" ELSE "quote_loop"
         /\ ret' = IF r.pd.panicked THEN "panic" ELSE ret
    /\ UNCHANGED <<input, call>>
    /\ UNCHANGED fvars

\* syntax_blocks.rs:83-85: after the loop, eat the closing quote if there is
\* one and return true.
QuoteLoopExit ==
    /\ bpc = "quote_loop"
    /\ ~QuoteLoopCond(PD)
    /\ output' = QuoteFinish(PD).output
    /\ byte_offset' = QuoteFinish(PD).byte_offset
    /\ bpc' = "idle"
    /\ ret' = TRUE
    /\ UNCHANGED <<input, call>>
    /\ UNCHANGED fvars

\* syntax_blocks.rs:16-24: handle_blocks called with a list of blocks.
HandleBlocksCall ==
    /\ bpc = "idle"
    /\ \E types \in BlockLists :
          Apply("handle_blocks", types, HandleBlocks(PD, types))

\* syntax_blocks.rs:31-35: handle_or_push called with a list of blocks.
HandleOrPushCall ==
    /\ bpc = "idle"
    /\ \E types \in BlockLists :
          Apply("handle_or_push", <<>>, HandleOrPush(PD, types))

BlockNext ==
    \/ NewTokenCall
    \/ EscapeCall
    \/ WhitespaceCall
    \/ QuoteCall
    \/ QuoteLoopStep
    \/ QuoteLoopExit
    \/ HandleBlocksCall
    \/ HandleOrPushCall

BlockSpec == BlockInit /\ [][BlockNext]_vars

----------------------------------------------------------------------------
(* Vocabulary of the properties.                                           *)

AllIn(str, S) == \A k \in 1..Len(str) : str[k] \in S

Ok(name, arguments) == [kind |-> "Ok", name |-> name, arguments |-> arguments]

\* The maximal runs of non-whitespace characters of str, left to right.
RECURSIVE Fields(_)
Fields(str) ==
    IF str = <<>> THEN <<>>
    ELSE IF IsWhitespace(Head(str)) THEN Fields(Tail(str))
    ELSE LET n == CHOOSE k \in 1..Len(str) :
                    /\ \A j \in 1..k : ~IsWhitespace(str[j])
                    /\ k = Len(str) \/ IsWhitespace(str[k + 1])
         IN <<SubSeq(str, 1, n)>> \o Fields(SubSeq(str, n + 1, Len(str)))

\* The arm of the loop body that handles the k-th character of str.
Kind(str, k) == Branch(ScanTo(str, k - 1), str[k])

----------------------------------------------------------------------------
\* C1: from_str returns EmptyCommandError exactly when the token list it is
\* left with is empty, which is the case for the empty input and for every
\* input made only of whitespace; otherwise it returns Ok, in particular
\* whenever the input holds an ordinary character.
C1_EmptyExactlyWhenNoTokens ==
    pc = "done" =>
        /\ result.kind \in {"Ok", "EmptyCommandError"}
        /\ (result.kind = "EmptyCommandError") <=> (tokens = <<>>)
        /\ AllIn(s, WhitespaceChars) => result.kind = "EmptyCommandError"
        /\ (\E k \in 1..Len(s) : s[k] \in Plain) => result.kind = "Ok"

C1_Witness ==
    /\ pc = "done"
    /\ s = <<"sp", Tab, "sp">>
    /\ result = EmptyCommandError

\* C2: on success name is the first token and arguments are the remaining
\* tokens in input order, one fewer than the tokens; for an input without
\* quotes and backslashes the tokens are its whitespace-separated fields.
C2_NameThenArguments ==
    (pc = "done" /\ result.kind = "Ok") =>
        /\ result.name = tokens[1]
        /\ Len(result.arguments) = Len(tokens) - 1
        /\ \A k \in 1..Len(result.arguments) : result.arguments[k] = tokens[k + 1]
        /\ AllIn(s, Plain \cup WhitespaceChars) =>
              <<result.name>> \o result.arguments = Fields(s)

C2_Witness ==
    /\ pc = "done"
    /\ s = <<"r", "sp", "n", "sp", "t">>
    /\ result = Ok(<<"r">>, << <<"n">>, <<"t">> >>)

\* C3: replacing a run of unquoted, unescaped whitespace characters by one
\* whitespace character does not change what from_str returns.
C3_WhitespaceCollapse ==
    pc = "done" =>
        \A p \in 1..Len(s) : \A q \in p..Len(s) : \A w \in WhitespaceChars :
            (\A k \in p..q : Kind(s, k) = "whitespace") =>
                FromStr(SubSeq(s, 1, p - 1) \o <<w>> \o SubSeq(s, q + 1, Len(s)))
                    = result

C3_Witness ==
    /\ pc = "done"
    /\ s = <<"r", "sp", Tab, "sp", "n">>
    /\ result = Ok(<<"r">>, << <<"n">> >>)

\* C4: whitespace added before the first token or after the last token
\* (outside quotes, not escaped) leaves the result of from_str unchanged and
\* adds no empty token.
C4_OuterWhitespaceIgnored ==
    pc = "done" =>
        \A w \in WhitespaceChars :
            /\ FromStr(<<w>> \o s) = result
            /\ (~in_quotes /\ ~in_backslash) => FromStr(s \o <<w>>) = result

\* Characters p+1 .. q-1 of str.
Between(str, p, q) == SubSeq(str, p + 1, q - 1)

\* C5: a quote next to unquoted text continues the same token, the quote
\* characters are not part of it, and whitespace between the quotes is
\* appended to it: P"Q"R, with P and R ordinary text and Q ordinary text and
\* whitespace, is the single token PQR.
C5_QuotesJoinAndKeepWhitespace ==
    pc = "done" =>
        \A p \in 1..Len(s) : \A q \in (p + 1)..Len(s) :
            LET P == Between(s, 0, p)
                Q == Between(s, p, q)
                R == Between(s, q, Len(s) + 1)
            IN (/\ s[p] = DQuote /\ s[q] = DQuote
                /\ AllIn(P, Plain) /\ AllIn(R, Plain)
                /\ AllIn(Q, Plain \cup WhitespaceChars)
                /\ P \o Q \o R # <<>>)
               => result = Ok(P \o Q \o R, <<>>)

C5_Witness ==
    /\ pc = "done"
    /\ s = <<"n", DQuote, "sp", DQuote, "t">>
    /\ result = Ok(<<"n", "sp", "t">>, <<>>)

\* C6: inside a quoted region a backslash followed by a quote appends a
\* literal quote and does not close the region, and the scan is then still
\* inside the region: "Q\"R", with Q and R ordinary text and whitespace, is
\* the single token Q"R.
C6_EscapedQuoteInsideQuotes ==
    pc = "done" =>
        \A p \in 2..(Len(s) - 2) :
            LET Q == Between(s, 1, p)
                R == Between(s, p + 1, Len(s))
            IN (/\ s[1] = DQuote /\ s[Len(s)] = DQuote
                /\ s[p] = Backslash /\ s[p + 1] = DQuote
                /\ AllIn(Q, Plain \cup WhitespaceChars)
                /\ AllIn(R, Plain \cup WhitespaceChars))
               => result = Ok(Q \o <<DQuote>> \o R, <<>>)

C6_Witness ==
    /\ pc = "done"
    /\ s = <<DQuote, Backslash, DQuote, "sp", DQuote>>
    /\ result = Ok(<<DQuote, "sp">>, <<>>)

\* C7: outside quotes a backslash before a whitespace character, a quote or
\* a backslash makes that character an ordinary part of the current token,
\* and the escaping backslash is not part of the token: P\xR, with P and R
\* ordinary text, is the single token PxR.
C7_EscapeOutsideQuotes ==
    pc = "done" =>
        \A p \in 1..(Len(s) - 1) :
            LET P == Between(s, 0, p)
                R == Between(s, p + 1, Len(s) + 1)
            IN (/\ s[p] = Backslash
                /\ s[p + 1] \in WhitespaceChars \cup {DQuote, Backslash}
                /\ AllIn(P, Plain) /\ AllIn(R, Plain))
               => result = Ok(P \o <<s[p + 1]>> \o R, <<>>)

C7_Witness ==
    /\ pc = "done"
    /\ s = <<"n", Backslash, "sp", "t">>
    /\ result = Ok(<<"n", "sp", "t">>, <<>>)

\* C8 as stated: a backslash followed by n, r or t appends a newline, a
\* carriage return or a tab, outside quotes (P\xR) and inside ("Q\xR").
C8_EscapeTranslated ==
    pc = "done" =>
        \A p \in 1..(Len(s) - 1) :
            (s[p] = Backslash /\ s[p + 1] \in {"n", "r", "t"}) =>
                /\ LET P == Between(s, 0, p)
                       R == Between(s, p + 1, Len(s) + 1)
                   IN (AllIn(P, Plain) /\ AllIn(R, Plain))
                      => result = Ok(P \o <<Translate(s[p + 1])>> \o R, <<>>)
                /\ LET Q == Between(s, 1, p)
                       R == Between(s, p + 1, Len(s))
                   IN (/\ p > 1 /\ p + 1 < Len(s)
                       /\ s[1] = DQuote /\ s[Len(s)] = DQuote
                       /\ AllIn(Q, Plain \cup {"sp", Tab})
                       /\ AllIn(R, Plain \cup {"sp", Tab}))
                      => result = Ok(Q \o <<Translate(s[p + 1])>> \o R, <<>>)

\* C8, amended: a backslash followed by n, r or t appends that letter
\* itself, outside quotes (P\xR is the token PxR) and inside ("Q\xR" is the
\* token QxR); no escape sequence is translated.
C8_EscapedLetterVerbatim ==
    pc = "done" =>
        \A p \in 1..(Len(s) - 1) :
            (s[p] = Backslash /\ s[p + 1] \in {"n", "r", "t"}) =>
                /\ LET P == Between(s, 0, p)
                       R == Between(s, p + 1, Len(s) + 1)
                   IN (AllIn(P, Plain) /\ AllIn(R, Plain))
                      => result = Ok(P \o <<s[p + 1]>> \o R, <<>>)
                /\ LET Q == Between(s, 1, p)
                       R == Between(s, p + 1, Len(s))
                   IN (/\ p > 1 /\ p + 1 < Len(s)
                       /\ s[1] = DQuote /\ s[Len(s)] = DQuote
                       /\ AllIn(Q, Plain \cup {"sp", Tab})
                       /\ AllIn(R, Plain \cup {"sp", Tab}))
                      => result = Ok(Q \o <<s[p + 1]>> \o R, <<>>)

C8_Witness ==
    /\ pc = "done"
    /\ s = <<DQuote, Backslash, "n", DQuote>>
    /\ result = Ok(<<"n">>, <<>>)

\* C9 as stated: an input that ends inside an open quoted region fails with
\* an UnterminatedQuote error.
C9_UnterminatedQuoteFails ==
    (pc = "done" /\ in_quotes) => result = UnterminatedQuote

\* The input without its last character when that is a pending backslash.
WithoutPendingBackslash(str, pending) ==
    IF pending THEN SubSeq(str, 1, Len(str) - 1) ELSE str

\* C9, amended: an input that ends inside an open quoted region is not an
\* error of its own: the region ends with the input, and from_str returns
\* what it returns for the same input (less a trailing unconsumed backslash)
\* with the closing quote appended, Ok or EmptyCommandError.
C9_OpenQuoteClosedByEnd ==
    (pc = "done" /\ in_quotes) =>
        /\ result.kind \in {"Ok", "EmptyCommandError"}
        /\ result = FromStr(WithoutPendingBackslash(s, in_backslash) \o <<DQuote>>)

C9_Witness ==
    /\ pc = "done"
    /\ in_quotes
    /\ s = <<"r", "sp", DQuote, "n", "sp">>
    /\ result = Ok(<<"r">>, << <<"n", "sp">> >>)

\* C10 as stated: an input whose last character is an unconsumed backslash
\* fails with an UnterminatedEscape error.
C10_UnterminatedEscapeFails ==
    (pc = "done" /\ in_backslash) => result = UnterminatedEscape

\* C10, amended: a trailing unconsumed backslash is not an error of its own:
\* it is dropped, and from_str returns what it returns for the input without
\* that backslash, Ok or EmptyCommandError.
C10_TrailingBackslashDropped ==
    (pc = "done" /\ in_backslash) =>
        /\ result.kind \in {"Ok", "EmptyCommandError"}
        /\ result = FromStr(SubSeq(s, 1, Len(s) - 1))

C10_Witness ==
    /\ pc = "done"
    /\ in_backslash
    /\ s = <<"r", "sp", "n", Backslash>>
    /\ result = Ok(<<"r">>, << <<"n">> >>)

\* C11 as stated: a single quote opens a quoted region like a double quote,
\* each closed only by its own kind: 'Q' is the one token Q with its
\* whitespace, and "Q'R" and 'Q"R' are the one tokens Q'R and Q"R.
C11_BothQuotesOpen ==
    pc = "done" =>
        /\ LET Q == Between(s, 1, Len(s))
           IN (/\ Len(s) > 2 /\ s[1] = SQuote /\ s[Len(s)] = SQuote
               /\ AllIn(Q, Plain \cup {"sp", Tab}))
              => result = Ok(Q, <<>>)
        /\ \A p \in 2..(Len(s) - 1) :
             LET Q == Between(s, 1, p)
                 R == Between(s, p, Len(s))
             IN (/\ s[1] \in {DQuote, SQuote} /\ s[Len(s)] = s[1]
                 /\ s[p] \in {DQuote, SQuote} /\ s[p] # s[1]
                 /\ AllIn(Q, Plain \cup {"sp", Tab})
                 /\ AllIn(R, Plain \cup {"sp", Tab}))
                => result = Ok(Q \o <<s[p]>> \o R, <<>>)

\* C11, amended: only the double quote opens a quoted region, and only a
\* double quote closes it; the single quote is an ordinary character: inside
\* a "..." region it is appended verbatim ("Q'R" is the one token Q'R), and
\* outside one it is appended too and opens nothing, so that whitespace
\* between two single quotes separates tokens ('Q' splits into the
\* whitespace-separated fields of the whole string, quotes included).
C11_OnlyDoubleQuoteOpens ==
    pc = "done" =>
        /\ LET Q == Between(s, 1, Len(s))
           IN (/\ Len(s) > 2 /\ s[1] = SQuote /\ s[Len(s)] = SQuote
               /\ AllIn(Q, Plain \cup {"sp", Tab}))
              => /\ result.kind = "Ok"
                 /\ <<result.name>> \o result.arguments = Fields(s)
        /\ \A p \in 2..(Len(s) - 1) :
             LET Q == Between(s, 1, p)
                 R == Between(s, p, Len(s))
             IN (/\ s[1] = DQuote /\ s[Len(s)] = DQuote /\ s[p] = SQuote
                 /\ AllIn(Q, Plain \cup {"sp", Tab})
                 /\ AllIn(R, Plain \cup {"sp", Tab}))
                => result = Ok(Q \o <<SQuote>> \o R, <<>>)

C11_Witness ==
    /\ pc = "done"
    /\ s = <<SQuote, "n", "sp", "t", SQuote>>
    /\ result = Ok(<<SQuote, "n">>, << <<"t", SQuote>> >>)

\* C12: on success the name and every argument are non-empty strings.
C12_NoEmptyToken ==
    (pc = "done" /\ result.kind = "Ok") =>
        /\ result.name # <<>>
        /\ \A k \in 1..Len(result.arguments) : result.arguments[k] # <<>>

\* The tokens joined with single spaces.
RECURSIVE Join(_)
Join(toks) ==
    IF Len(toks) = 0 THEN <<>>
    ELSE IF Len(toks) = 1 THEN toks[1]
    ELSE toks[1] \o <<"sp">> \o Join(Tail(toks))

SpecialChars == WhitespaceChars \cup {DQuote, SQuote, Backslash}

\* C13: when no token of a successful result holds a whitespace, quote or
\* backslash character, parsing the tokens joined with single spaces gives
\* the same name and arguments again.
C13_RejoinIdempotent ==
    (/\ pc = "done" /\ result.kind = "Ok"
     /\ \A k \in 1..Len(tokens) : \A j \in 1..Len(tokens[k]) :
            tokens[k][j] \notin SpecialChars)
    => FromStr(Join(<<result.name>> \o result.arguments)) = result

\* C14: a loop iteration leaves the token list unchanged, appends the
\* current character to the last token, or appends one new empty token; the
\* return leaves the list unchanged or removes an empty last token; no
\* other token is ever touched.
C14_TokensFrozen ==
    [][/\ (pc = "loop" /\ i' = i + 1) =>
            \/ tokens' = tokens
            \/ tokens' = Append(tokens, <<>>)
            \/ /\ Len(tokens) > 0
               /\ tokens' = [tokens EXCEPT ![Len(tokens)] = Append(@, s[i + 1])]
       /\ (pc = "loop" /\ pc' = "done") =>
            \/ tokens' = tokens
            \/ /\ Len(tokens) > 0
               /\ tokens[Len(tokens)] = <<>>
               /\ tokens' = SubSeq(tokens, 1, Len(tokens) - 1)]_vars

C14_Witness ==
    /\ pc = "done"
    /\ s = <<"n", "sp", "t", Tab>>
    /\ tokens = << <<"n">>, <<"t">> >>

\* C19: from_str never panics: while it scans, and when it tests the last
\* token after the scan, the token list holds at least one token.
C19_NeverPanics ==
    /\ pc # "panic"
    /\ result.kind # "panic"
    /\ pc = "loop" => Len(tokens) >= 1

C19_Witness ==
    /\ pc = "loop"
    /\ i = Len(s)
    /\ s = <<"sp", DQuote, Backslash, DQuote, Tab>>
    /\ tokens = << <<DQuote, Tab>> >>

\* C20: an explicitly quoted empty token "" is kept or dropped alike as the
\* last token (P "") and as a middle token (P "" R).
C20_EmptyQuotedTokenAlike ==
    pc = "done" =>
        LET P == SubSeq(s, 1, Len(s) - 3)
            middle == FromStr(s \o <<"sp", "n">>)
        IN (/\ Len(s) > 3 /\ AllIn(P, Plain)
            /\ SubSeq(s, Len(s) - 2, Len(s)) = <<"sp", DQuote, DQuote>>)
           => /\ result.kind = "Ok" /\ middle.kind = "Ok"
              /\ (result.arguments = << <<>> >>)
                    <=> (middle.arguments = << <<>>, <<"n">> >>)
              /\ (result.arguments = <<>>)
                    <=> (middle.arguments = << <<"n">> >>)

----------------------------------------------------------------------------
(* Properties of the syntax blocks, checked under BlockSpec.  In a step     *)
(* that makes a call, PD is the ParserData the call is made on and PD' the  *)
(* one it leaves.                                                           *)

\* C15: when handle_blocks returns false, byte_offset and the output are
\* unchanged, and it returns false on exhausted input; when it returns true,
\* every block before the first matching one in list order returned false
\* without touching the ParserData, and the ParserData is as that first
\* matching block alone left it.
C15_HandleBlocksFrame ==
    [][LET types == call'.types IN
         (/\ bpc = "idle" /\ bpc' = "idle"
          /\ call'.op = "handle_blocks")
         => /\ ret' \in BOOLEAN
            /\ ~NotEmpty(PD) => ret' = FALSE
            /\ ret' = FALSE => (byte_offset' = byte_offset /\ output' = output)
            /\ ret' = TRUE =>
                 \E k \in 1..Len(types) :
                    /\ \A j \in 1..(k - 1) :
                          Consume(types[j], PD) = Returned(PD, FALSE)
                    /\ Consume(types[k], PD) = Returned(PD', TRUE)]_vars

C15_Witness ==
    /\ bpc = "idle"
    /\ call = [op |-> "handle_blocks", types |-> <<"EscapeBlock", "WhitespaceBlock">>]
    /\ ret = TRUE
    /\ input = <<"sp", "sp", "e2">>
    /\ byte_offset = 2
    /\ output = << <<>> >>

\* C16: every handle_or_push call on non-exhausted input, an iteration of
\* the loop of QuoteBlock::consume included, moves byte_offset forward by at
\* least one byte and not past the end of the input, so the loop runs at
\* most as many times as the input has bytes; when QuoteBlock::consume
\* returns, it returns true with byte_offset just after the closing quote or
\* at the end of the input.
C16_QuoteLoopTerminates ==
    [][/\ (bpc = "idle" /\ call'.op = "handle_or_push" /\ NotEmpty(PD)) =>
            (byte_offset' > byte_offset /\ byte_offset' <= ByteLen(input))
       /\ (bpc = "quote_loop" /\ bpc' # "idle") =>
            (byte_offset' > byte_offset /\ byte_offset' <= ByteLen(input))
       /\ (bpc = "quote_loop" /\ bpc' = "idle") =>
            /\ ret' = TRUE
            /\ \/ byte_offset' = ByteLen(input)
               \/ (Peek(PD) = DQuote /\ byte_offset' = byte_offset + LenUtf8(DQuote))]_vars

C16_Witness ==
    /\ bpc = "idle"
    /\ call.op = "QuoteBlock"
    /\ ret = TRUE
    /\ input = <<DQuote, "e2", DQuote>>
    /\ byte_offset = 4
    /\ output = << <<"e2">> >>

\* The output with c appended to its last token.
PushedTo(toks, c) == [toks EXCEPT ![Len(toks)] = Append(@, c)]

C18_WhitespaceRunOneToken ==
    [][(/\ bpc = "idle" /\ call'.op = "WhitespaceBlock"
        /\ IsWhitespace(Peek(PD)))
       => /\ bpc' = "idle"
          /\ ret' = TRUE
          /\ output' = Append(output, <<>>)
          /\ byte_offset' > byte_offset
          /\ ~IsWhitespace(Peek(PD'))
          /\ \A k \in 1..Len(input) :
                LET start == ByteLen(SubSeq(input, 1, k - 1))
                IN (byte_offset <= start /\ start < byte_offset')
                   => IsWhitespace(input[k])]_vars

C18_Witness ==
    /\ bpc = "idle"
    /\ call.op = "WhitespaceBlock"
    /\ ret = TRUE
    /\ input = <<"e2", "sp", "sp">>
    /\ byte_offset = 4
    /\ output = << <<"e2">>, <<>> >>

====
